---- MODULE Spec2Model ----
(***************************************************************************)
(* A model of hw_12.py: a command-line contact manager.  Field validators, *)
(* Record, AddressBook, the command handlers and the REPL driver `main`.   *)
(*                                                                         *)
(* Text is a sequence of one-character strings, so that lower(), split(),  *)
(* startswith(), isdigit(), substring tests and strptime() are computed    *)
(* character by character as Python computes them.                         *)
(***************************************************************************)
EXTENDS Integers, Sequences, FiniteSets, TLC

VARIABLES
    pc,             \* position of main: "Loading", "Running", "Exited", "Failed";
                    \* "Library" when the classes are driven directly
    ab,             \* AddressBook.data: ordered mapping, a sequence of [key, rec]
    recs,           \* the heap of Record objects: object id -> Record
    user_input,     \* the line last read by main
    out,            \* what the last loop iteration printed
    binFile,        \* contents of ab.bin (a sequence: empty when the file is absent)
    csvFile,        \* contents of ab.csv (a sequence: empty when the file is absent)
    binWrites,      \* number of times this process wrote ab.bin
    csvWrites,      \* number of times this process wrote ab.csv
    op,             \* the library operation last applied, with its result
    gen,            \* the generator object returned by AddressBook.iterator
    chunks          \* the chunks the generator has yielded so far

vars == <<pc, ab, recs, user_input, out, binFile, csvFile, binWrites,
          csvWrites, op, gen, chunks>>

-----------------------------------------------------------------------------
(* Bounds of the model *)

MaxChunks == 3      \* prompts answered inside one paginated show_all
MaxPhones == 2      \* Phone objects alive when the classes are driven directly
MaxBook == 5        \* records in a book handed to iterator
MaxPage == 3        \* largest page size handed to iterator

-----------------------------------------------------------------------------
(* Python values *)

None == <<"<None>">>                       \* distinct from every text
NoneDate == [year |-> 0, month |-> 0, day |-> 0]   \* birthday is None

Digits == <<"0", "1", "2", "3", "4", "5", "6", "7", "8", "9">>
UpperCase == <<"A", "B", "C", "D", "E", "F", "G", "H", "I", "J", "K", "L", "M",
               "N", "O", "P", "Q", "R", "S", "T", "U", "V", "W", "X", "Y", "Z">>
LowerCase == <<"a", "b", "c", "d", "e", "f", "g", "h", "i", "j", "k", "l", "m",
               "n", "o", "p", "q", "r", "s", "t", "u", "v", "w", "x", "y", "z">>

Range(s) == {s[i] : i \in 1..Len(s)}

IsDigitChar(c) == c \in Range(Digits)

DigitVal(c) == (CHOOSE i \in 1..10 : Digits[i] = c) - 1

\* str.lower(), one character
LowerChar(c) ==
    IF c \in Range(UpperCase)
    THEN LowerCase[CHOOSE i \in 1..26 : UpperCase[i] = c]
    ELSE c

\* str.lower()
lower(t) == [i \in 1..Len(t) |-> LowerChar(t[i])]

\* str.isdigit(): non-empty and every character a digit
isdigit(t) == Len(t) > 0 /\ \A i \in 1..Len(t) : IsDigitChar(t[i])

\* str.startswith(prefix)
startswith(t, prefix) ==
    Len(t) >= Len(prefix) /\ SubSeq(t, 1, Len(prefix)) = prefix

\* the `in` operator on two strings: needle is a substring of t
Contains(t, needle) ==
    \E i \in 0..(Len(t) - Len(needle)) :
        SubSeq(t, i + 1, i + Len(needle)) = needle

\* str(x) of a field value: str(None) is the text "None"
Str(v) == IF v = None THEN <<"N", "o", "n", "e">> ELSE v

RECURSIVE IntText(_)
\* str(n) of a non-negative int
IntText(n) == IF n < 10 THEN <<Digits[n + 1]>>
              ELSE IntText(n \div 10) \o <<Digits[(n % 10) + 1]>>

RECURSIVE ParseInt(_)
\* int(t) of a text of digits
ParseInt(t) == IF Len(t) = 0 THEN 0
               ELSE 10 * ParseInt(SubSeq(t, 1, Len(t) - 1)) + DigitVal(t[Len(t)])

RECURSIVE SplitOn(_, _, _)
\* the fields of t between occurrences of sep; cur is the field being read
SplitOn(t, sep, cur) ==
    IF Len(t) = 0 THEN <<cur>>
    ELSE IF t[1] = sep THEN <<cur>> \o SplitOn(Tail(t), sep, <<>>)
    ELSE SplitOn(Tail(t), sep, Append(cur, t[1]))

\* str.split(): fields between runs of whitespace, empty fields dropped
split(t) == SelectSeq(SplitOn(t, " ", <<>>), LAMBDA w : Len(w) > 0)

RECURSIVE Join(_, _)
\* sep.join(ts)
Join(ts, sep) ==
    IF Len(ts) = 0 THEN <<>>
    ELSE IF Len(ts) = 1 THEN ts[1]
    ELSE ts[1] \o sep \o Join(Tail(ts), sep)

-----------------------------------------------------------------------------
(* Phone *)

PhonePrefix == <<"+", "3", "8", "0">>
PhoneLen == 13

\* Phone.is_valid_phone: a falsy value (None, "") is accepted
Phone_is_valid_phone(phone) ==
    IF phone # None /\ Len(phone) > 0
    THEN IF ~startswith(phone, PhonePrefix) THEN FALSE
         ELSE IF Len(phone) # PhoneLen THEN FALSE
         ELSE IF ~isdigit(SubSeq(phone, 5, Len(phone))) THEN FALSE
         ELSE TRUE
    ELSE TRUE

-----------------------------------------------------------------------------
(* datetime *)

IsLeap(y) == (y % 4 = 0 /\ y % 100 # 0) \/ y % 400 = 0

DaysInMonth(y, m) ==
    IF m = 2 THEN (IF IsLeap(y) THEN 29 ELSE 28)
    ELSE IF m \in {4, 6, 9, 11} THEN 30 ELSE 31

\* datetime(y, m, d) raises ValueError unless the date exists
ValidDate(y, m, d) ==
    y >= 1 /\ y <= 9999 /\ m \in 1..12 /\ d >= 1 /\ d <= DaysInMonth(y, m)

RECURSIVE DaysBeforeMonth(_, _)
DaysBeforeMonth(y, m) ==
    IF m = 1 THEN 0 ELSE DaysBeforeMonth(y, m - 1) + DaysInMonth(y, m - 1)

\* date.toordinal(): days since 0001-01-01, plus one
Ordinal(dt) ==
    LET y == dt.year - 1
    IN  365 * y + (y \div 4) - (y \div 100) + (y \div 400)
        + DaysBeforeMonth(dt.year, dt.month) + dt.day

\* the day field of "%d": 1..31 as one or two digits, or a space and a digit
DayField(t) ==
    \/ /\ Len(t) \in 1..2 /\ isdigit(t)
       /\ ParseInt(t) \in 1..31
    \/ /\ Len(t) = 2 /\ t[1] = " " /\ IsDigitChar(t[2]) /\ t[2] # "0"

DayValue(t) == IF t[1] = " " THEN DigitVal(t[2]) ELSE ParseInt(t)

\* the month field of "%m": 1..12 as one or two digits
MonthField(t) == Len(t) \in 1..2 /\ isdigit(t) /\ ParseInt(t) \in 1..12

\* the year field of "%Y": exactly four digits
YearField(t) == Len(t) = 4 /\ isdigit(t)

\* datetime.strptime(text, "%d.%m.%Y") succeeds (else ValueError)
strptime_ok(text) ==
    LET f == SplitOn(text, ".", <<>>)
    IN  /\ Len(f) = 3
        /\ DayField(f[1]) /\ MonthField(f[2]) /\ YearField(f[3])
        /\ ValidDate(ParseInt(f[3]), ParseInt(f[2]), DayValue(f[1]))

\* datetime.strptime(text, "%d.%m.%Y").date()
strptime(text) ==
    LET f == SplitOn(text, ".", <<>>)
    IN  [year |-> ParseInt(f[3]), month |-> ParseInt(f[2]), day |-> DayValue(f[1])]

-----------------------------------------------------------------------------
(* Objects.  A Phone is [id, value]: Field defines no __eq__, so two Phone  *)
(* objects are equal exactly when they are the same object (same id).      *)
(* A Record is [name, phones, birthday] and lives in the heap `recs`.       *)

Msg(fmt, args) == [msg |-> fmt, args |-> args]

PhoneIds(h) == UNION {{h[r].phones[i].id : i \in 1..Len(h[r].phones)} : r \in DOMAIN h}

\* identity of a newly constructed Phone: the first address not in use
FreshPhone(h) == CHOOSE n \in 1..(Cardinality(PhoneIds(h)) + 1) :
                    /\ n \notin PhoneIds(h)
                    /\ \A m \in 1..(n - 1) : m \in PhoneIds(h)

RECURSIVE FlatPhones(_, _)
\* the Phone addresses in use, in the order of the records 1..n holding them
FlatPhones(h, n) ==
    IF n = 0 THEN <<>>
    ELSE FlatPhones(h, n - 1)
         \o (IF n \in DOMAIN h
             THEN [i \in 1..Len(h[n].phones) |-> h[n].phones[i].id]
             ELSE <<>>)

\* Addresses are observable only through the identity test of two objects,
\* so the heap is kept up to a renaming of the Phone addresses: each Phone is
\* renamed to the place of its first occurrence in FlatPhones.
Renamed(h) ==
    LET top == IF DOMAIN h = {} THEN 0
               ELSE CHOOSE m \in DOMAIN h : \A k \in DOMAIN h : k <= m
        flat == FlatPhones(h, top)
        place(id) == CHOOSE k \in 1..Len(flat) :
                        flat[k] = id /\ \A j \in 1..(k - 1) : flat[j] # id
    IN  [r \in DOMAIN h |->
            [h[r] EXCEPT !.phones =
                [i \in 1..Len(h[r].phones) |->
                    [h[r].phones[i] EXCEPT !.id = place(h[r].phones[i].id)]]]]

\* identity of a newly constructed Record
FreshRec(h) == CHOOSE n \in 1..(Cardinality(DOMAIN h) + 1) :
                    /\ n \notin DOMAIN h
                    /\ \A m \in 1..(n - 1) : m \in DOMAIN h

\* Phone.__init__: the value setter raises ValueError on an invalid value
Phone_init_ok(value) == Phone_is_valid_phone(value)

\* Field.__str__ over a list of phones
PhoneStrs(phones) == [i \in 1..Len(phones) |-> Str(phones[i].value)]

\* `phone in self.phones`: list membership by object equality, which for
\* Phone is identity
PhoneIn(phone, phones) == \E i \in 1..Len(phones) : phones[i].id = phone.id

\* Record.add_phone
Record_add_phone(r, phone) ==
    IF ~PhoneIn(phone, r.phones)
    THEN [rec |-> [r EXCEPT !.phones = Append(r.phones, phone)],
          ret |-> Msg("Phone {} added to contact {}", <<Str(phone.value), Str(r.name)>>)]
    ELSE [rec |-> r,
          ret |-> Msg("{} already added to {}", <<Str(phone.value), Str(r.name)>>)]

\* Record.remove_phone
Record_remove_phone(r, phone) ==
    [r EXCEPT !.phones = SelectSeq(r.phones, LAMBDA p : Str(p.value) # phone)]

\* Record.change_phone: old_phone is given by its string form
Record_change_phone(r, old_phone, new_phone) ==
    LET hits == {i \in 1..Len(r.phones) : Str(r.phones[i].value) = old_phone}
    IN  IF hits = {} THEN r
        ELSE LET i == CHOOSE j \in hits : \A k \in hits : j <= k
             IN  [r EXCEPT !.phones[i] = new_phone]

\* Record.set_birthday
Record_set_birthday(r, birthday) ==
    IF strptime_ok(birthday)
    THEN [rec |-> [r EXCEPT !.birthday = strptime(birthday)],
          ret |-> Msg("Birthday set for {}", <<Str(r.name)>>)]
    ELSE [rec |-> r,
          ret |-> Msg("Invalid birthday format. Please use dd.mm.yyyy format.", <<>>)]

\* Record.days_to_birthday, with datetime.now().date() = today
Record_days_to_birthday(r, today) ==
    IF r.birthday = NoneDate
    THEN [exc |-> "", ret |-> Msg("Birthday not set", <<>>)]
    ELSE IF ~ValidDate(today.year, r.birthday.month, r.birthday.day)
    THEN [exc |-> "ValueError", ret |-> Msg("", <<>>)]
    ELSE LET this == [year |-> today.year, month |-> r.birthday.month,
                      day |-> r.birthday.day]
         IN  IF Ordinal(this) < Ordinal(today)
             THEN IF ~ValidDate(today.year + 1, r.birthday.month, r.birthday.day)
                  THEN [exc |-> "ValueError", ret |-> Msg("", <<>>)]
                  ELSE [exc |-> "",
                        ret |-> Msg("Days to next birthday for {}: {}",
                                    <<Str(r.name),
                                      IntText(Ordinal([this EXCEPT !.year = today.year + 1])
                                              - Ordinal(today))>>)]
             ELSE [exc |-> "",
                   ret |-> Msg("Days to next birthday for {}: {}",
                               <<Str(r.name), IntText(Ordinal(this) - Ordinal(today))>>)]

\* Record.__str__
Record_str(r) ==
    <<"N", "a", "m", "e", ":", " ">> \o Str(r.name)
    \o <<",", " ", "P", "h", "o", "n", "e", "s", ":", " ">>
    \o Join(PhoneStrs(r.phones), <<",", " ">>)

\* Record.__init__ with birthday None: phone is a Phone object or absent
Record_init(name, phone) ==
    LET r0 == [name |-> name, phones |-> <<>>, birthday |-> NoneDate]
    IN  IF Len(phone) = 0 THEN r0 ELSE Record_add_phone(r0, phone[1]).rec

-----------------------------------------------------------------------------
(* AddressBook: `data` is an insertion-ordered mapping, modelled as the     *)
(* sequence a of [key, rec] entries, rec an object id of the heap h.        *)

Keys(a) == {a[i].key : i \in 1..Len(a)}

\* dict lookup: the position of key, 0 if absent
IndexOf(a, key) ==
    IF key \in Keys(a) THEN CHOOSE i \in 1..Len(a) : a[i].key = key ELSE 0

\* UserDict.get: the object id, 0 for None
AddressBook_get(a, key) == IF key \in Keys(a) THEN a[IndexOf(a, key)].rec ELSE 0

\* list(self.data.values())
AddressBook_values(a) == [i \in 1..Len(a) |-> a[i].rec]

\* objects no longer referenced by the mapping are reclaimed
Reclaim(a, h) == [id \in (DOMAIN h) \cap Range(AddressBook_values(a)) |-> h[id]]

\* the mapping assignment self.data[key] = rec: an existing key keeps its place
SetItem(a, key, rec) ==
    IF key \in Keys(a)
    THEN [a EXCEPT ![IndexOf(a, key)] = [key |-> key, rec |-> rec]]
    ELSE Append(a, [key |-> key, rec |-> rec])

\* add_record keyed by str(record) instead of str(record.name)
AddressBook_add_record_by_str(a, h, id) == SetItem(a, Record_str(h[id]), id)

\* AddressBook.add_record of the object id
AddressBook_add_record(a, h, id) == SetItem(a, Str(h[id].name), id)

\* AddressBook.remove_record: del raises KeyError when the key is absent
AddressBook_remove_record(a, h, name) ==
    IF name \notin Keys(a)
    THEN [exc |-> "KeyError", ab |-> a, recs |-> h, ret |-> Msg("", <<>>)]
    ELSE LET a2 == SelectSeq(a, LAMBDA e : e.key # name)
         IN  [exc |-> "", ab |-> a2, recs |-> Reclaim(a2, h),
              ret |-> Msg("{} record deleted", <<name>>)]

\* AddressBook.search_by_name
AddressBook_search_by_name(a, h, name) ==
    SelectSeq(AddressBook_values(a), LAMBDA id : Str(h[id].name) = name)

RECURSIVE ChangeEach(_, _, _)
\* the loop of change_phone_by_name over the results
ChangeEach(h, results, new_phone) ==
    IF Len(results) = 0 THEN [exc |-> "", recs |-> h]
    ELSE LET id == results[1]
         IN  IF Len(h[id].phones) = 0 THEN [exc |-> "IndexError", recs |-> h]
             ELSE IF ~Phone_init_ok(new_phone) THEN [exc |-> "ValueError", recs |-> h]
             ELSE LET p == [id |-> FreshPhone(h), value |-> new_phone]
                      h2 == [h EXCEPT ![id] =
                                Record_change_phone(h[id], Str(h[id].phones[1].value), p)]
                  IN  ChangeEach(h2, Tail(results), new_phone)

\* AddressBook.change_phone_by_name
AddressBook_change_phone_by_name(a, h, name, new_phone) ==
    ChangeEach(h, AddressBook_search_by_name(a, h, name), new_phone)

RECURSIVE AddressBook_search_without_else(_, _, _)
\* AddressBook.search with the phone loop run for every record
AddressBook_search_without_else(a, h, query) ==
    IF Len(a) = 0 THEN <<>>
    ELSE LET r == h[a[1].rec]
             q == lower(query)
             here == (IF Contains(lower(Str(r.name)), q) THEN <<a[1].rec>> ELSE <<>>)
                     \o [i \in 1..Len(SelectSeq(r.phones,
                                  LAMBDA p : Contains(lower(Str(p.value)), q)))
                         |-> a[1].rec]
         IN  here \o AddressBook_search_without_else(Tail(a), h, query)

\* AddressBook.search: the ids of the matching records, in result order
RECURSIVE AddressBook_search(_, _, _)
AddressBook_search(a, h, query) ==
    IF Len(a) = 0 THEN <<>>
    ELSE LET r == h[a[1].rec]
             q == lower(query)
             here == IF Contains(lower(Str(r.name)), q) THEN <<a[1].rec>>
                     ELSE [i \in 1..Len(SelectSeq(r.phones,
                                  LAMBDA p : Contains(lower(Str(p.value)), q)))
                           |-> a[1].rec]
         IN  here \o AddressBook_search(Tail(a), h, query)

\* AddressBook.save_csv: csv.writer.writerow(self.data) writes one row whose
\* fields are the items of iterating the mapping, i.e. its keys
AddressBook_save_csv(a, h) == << [i \in 1..Len(a) |-> a[i].key] >>

\* AddressBook.save: pickle.dump(self.data)
AddressBook_save(a, h) == << [data |-> a, recs |-> h] >>

\* AddressBook.load: the unpickled mapping, {} when the file is absent
AddressBook_load(file) ==
    IF Len(file) = 0 THEN [data |-> <<>>, recs |-> <<>>] ELSE file[1]

-----------------------------------------------------------------------------
(* AddressBook.iterator is a generator function.  The generator object is  *)
(* [state, n, records, bound, current_index, total_records]; n is <<>> for *)
(* None and <<k>> for the int k.  No code runs before the first next().     *)

NoGen == [state |-> "none", n |-> <<>>, records |-> <<>>, bound |-> FALSE,
          current_index |-> 0, total_records |-> 0]

\* the call self.iterator(n): a generator object, suspended at its start
AddressBook_iterator(n) == [NoGen EXCEPT !.state = "created", !.n = n]

\* the slice s[lo:hi] of a list
PySlice(s, lo, hi) ==
    LET norm(i) == IF i < 0 THEN (IF i + Len(s) < 0 THEN 0 ELSE i + Len(s))
                   ELSE IF i > Len(s) THEN Len(s) ELSE i
    IN  SubSeq(s, norm(lo) + 1, norm(hi))

\* iterator_while with the test current_index <= total_records
iterator_while_inclusive(g) ==
    IF ~g.bound
    THEN [gen |-> [g EXCEPT !.state = "finished"], yield |-> <<>>,
          exc |-> "UnboundLocalError"]
    ELSE IF g.current_index <= g.total_records
    THEN [gen |-> [g EXCEPT !.state = "at_yield_slice"],
          yield |-> <<PySlice(g.records, g.current_index, g.current_index + g.n[1])>>,
          exc |-> ""]
    ELSE [gen |-> [g EXCEPT !.state = "finished"], yield |-> <<>>,
          exc |-> "StopIteration"]

\* the while loop of iterator, entered at its test
iterator_while(g) ==
    IF ~g.bound
    THEN [gen |-> [g EXCEPT !.state = "finished"], yield |-> <<>>,
          exc |-> "UnboundLocalError"]
    ELSE IF g.current_index < g.total_records
    THEN [gen |-> [g EXCEPT !.state = "at_yield_slice"],
          yield |-> <<PySlice(g.records, g.current_index, g.current_index + g.n[1])>>,
          exc |-> ""]
    ELSE [gen |-> [g EXCEPT !.state = "finished"], yield |-> <<>>,
          exc |-> "StopIteration"]

\* next(generator): runs the body of iterator up to its next yield
iterator_next(g, a) ==
    IF g.state = "created"
    THEN LET g1 == [g EXCEPT !.records = AddressBook_values(a)]
         IN  IF g.n = <<>>
             THEN [gen |-> [g1 EXCEPT !.state = "at_yield_all"],
                   yield |-> <<g1.records>>, exc |-> ""]
             ELSE iterator_while([g1 EXCEPT !.bound = TRUE,
                                            !.total_records = Len(g1.records),
                                            !.current_index = 0])
    ELSE IF g.state = "at_yield_all" THEN iterator_while(g)
    ELSE IF g.state = "at_yield_slice"
    THEN iterator_while([g EXCEPT !.current_index = g.current_index + g.n[1]])
    ELSE [gen |-> g, yield |-> <<>>, exc |-> "StopIteration"]

\* "\n".join(str(record) for record in chunk)
ChunkText(h, chunk) ==
    Join([i \in 1..Len(chunk) |-> Record_str(h[chunk[i]])], <<"\n">>)

RECURSIVE show_all_loop(_, _, _, _)
\* the for loop of AddressBook.show_all: what it prints
show_all_loop(g, a, h, printed) ==
    LET s == iterator_next(g, a)
    IN  IF s.exc = "StopIteration" THEN [exc |-> "", printed |-> printed]
        ELSE IF s.exc # "" THEN [exc |-> s.exc, printed |-> printed]
        ELSE LET p2 == Append(printed, Msg("{}", <<ChunkText(h, s.yield[1])>>))
             IN  IF g.n = <<>> \/ Len(s.yield[1]) < g.n[1]
                 THEN [exc |-> "", printed |-> p2]
                 ELSE show_all_loop(s.gen, a, h, p2)

\* AddressBook.show_all
AddressBook_show_all(a, h, n) == show_all_loop(AddressBook_iterator(n), a, h, <<>>)

-----------------------------------------------------------------------------
(* The command layer.  A handler applied to the argument tuple gives        *)
(* [exc, ret, printed, ab, recs]: the exception that leaves it ("" if none),*)
(* the returned string, what it printed, and the book afterwards.           *)

NoMsg == Msg("", <<>>)

Return(ret) ==
    [exc |-> "", ret |-> ret, printed |-> <<>>, ab |-> ab, recs |-> recs]

Raise(e) ==
    [exc |-> e, ret |-> NoMsg, printed |-> <<>>, ab |-> ab, recs |-> recs]

HelpText == Msg("Available commands: ...", <<>>)

\* help()
help(args) == IF Len(args) # 0 THEN Raise("TypeError") ELSE Return(HelpText)

\* the decorator input_error, applied to the outcome of the wrapped function
input_error(o) ==
    IF o.exc = "" THEN o
    ELSE IF o.exc = "KeyError"
    THEN [o EXCEPT !.exc = "", !.ret = Msg("contact not found", <<>>)]
    ELSE IF o.exc = "ValueError"
    THEN [o EXCEPT !.exc = "", !.ret = Msg("invalid format, type help", <<>>)]
    ELSE IF o.exc = "IndexError"
    THEN [o EXCEPT !.exc = "", !.ret = Msg("Invalid input", <<>>)]
    ELSE [o EXCEPT !.exc = "", !.ret = HelpText]

\* add (not decorated)
add(args) ==
    IF Len(args) \notin 1..3 THEN Raise("TypeError")
    ELSE LET name == args[1]
             phone == IF Len(args) >= 2 THEN args[2] ELSE None
             birthday == IF Len(args) >= 3 THEN args[3] ELSE None
         IN  IF AddressBook_get(ab, Str(name)) # 0
             THEN Raise("AttributeError")          \* record.phone
             ELSE IF ~Phone_init_ok(phone)
             THEN Return(Msg("Invalid phone number format", <<>>))
             ELSE IF birthday # None /\ Len(birthday) > 0
             THEN Raise("AttributeError")          \* datetime.datetime in Birthday
             ELSE LET id == FreshRec(recs)
                      p == [id |-> FreshPhone(recs), value |-> phone]
                      h == (id :> Record_init(name, <<p>>)) @@ recs
                  IN  [exc |-> "", printed |-> <<>>,
                       ret |-> Msg("Contact {} add success", <<name>>),
                       ab |-> AddressBook_add_record(ab, h, id),
                       recs |-> h]

\* find
find(args) ==
    input_error(
        IF Len(args) # 1 THEN Raise("TypeError")
        ELSE LET results == AddressBook_search_by_name(ab, recs, args[1])
             IN  IF Len(results) > 0
                 THEN Return(Msg("{}", <<Record_str(recs[results[1]])>>))
                 ELSE Raise("KeyError"))

\* change
change(args) ==
    input_error(
        IF Len(args) # 2 THEN Raise("TypeError")
        ELSE IF AddressBook_get(ab, Str(args[1])) # 0
        THEN LET c == AddressBook_change_phone_by_name(ab, recs, args[1], args[2])
             IN  IF c.exc # "" THEN Raise(c.exc)
                 ELSE [Return(Msg("phone number for {} updated", <<args[1]>>))
                          EXCEPT !.recs = c.recs]
        ELSE Return(Msg("no {} in contacts", <<args[1]>>)))

\* int(text): an optional sign and digits, else ValueError
int_ok(t) ==
    \/ isdigit(t)
    \/ Len(t) > 1 /\ t[1] \in {"+", "-"} /\ isdigit(Tail(t))

int(t) == IF t[1] = "-" THEN 0 - ParseInt(Tail(t))
          ELSE IF t[1] = "+" THEN ParseInt(Tail(t))
          ELSE ParseInt(t)

RECURSIVE show_all_pages(_, _, _, _)
\* the for loop of the handler show_all; the user answers 'q' at prompt
\* number quit (0: never), anything else at the prompts before it
show_all_pages(g, printed, prompts, quit) ==
    LET s == iterator_next(g, ab)
    IN  IF s.exc = "StopIteration" THEN [exc |-> "", printed |-> printed]
        ELSE IF s.exc # "" THEN [exc |-> s.exc, printed |-> printed]
        ELSE LET p2 == printed \o [i \in 1..Len(s.yield[1]) |->
                                     Msg("{}", <<Record_str(recs[s.yield[1][i]])>>)]
             IN  IF prompts + 1 = quit THEN [exc |-> "", printed |-> p2]
                 ELSE show_all_pages(s.gen, p2, prompts + 1, quit)

\* show_all
show_all(args, quit) ==
    input_error(
        IF Len(args) > 0
        THEN IF ~int_ok(args[1]) THEN Raise("ValueError")
             ELSE LET l == show_all_pages(AddressBook_iterator(<<int(args[1])>>),
                                          <<>>, 0, quit)
                  IN  IF l.exc # "" THEN [Raise(l.exc) EXCEPT !.printed = l.printed]
                      ELSE [Return(NoMsg) EXCEPT !.printed = l.printed]
        ELSE LET l == AddressBook_show_all(ab, recs, <<>>)
             IN  IF l.exc # "" THEN [Raise(l.exc) EXCEPT !.printed = l.printed]
                 ELSE [Return(NoMsg) EXCEPT !.printed = l.printed])

\* set_birthday
set_birthday(args) ==
    input_error(
        IF Len(args) # 2 THEN Raise("TypeError")
        ELSE LET id == AddressBook_get(ab, Str(args[1]))
             IN  IF id # 0
                 THEN LET b == Record_set_birthday(recs[id], args[2])
                      IN  [Return(b.ret) EXCEPT !.recs = [recs EXCEPT ![id] = b.rec]]
                 ELSE Return(Msg("No {} in contacts", <<args[1]>>)))

\* days_to_birthday
days_to_birthday(args, today) ==
    input_error(
        IF Len(args) # 1 THEN Raise("TypeError")
        ELSE LET id == AddressBook_get(ab, Str(args[1]))
             IN  IF id # 0
                 THEN LET d == Record_days_to_birthday(recs[id], today)
                      IN  IF d.exc # "" THEN Raise(d.exc) ELSE Return(d.ret)
                 ELSE Return(Msg("No {} in contacts", <<args[1]>>)))

\* no_command
no_command(args) ==
    input_error(Return(Msg(" - not valid command entered", <<>>)))

\* hello
hello(args) ==
    input_error(IF Len(args) # 0 THEN Raise("TypeError")
                ELSE Return(Msg("How can I help you?", <<>>)))

\* close
close(args) ==
    input_error(IF Len(args) # 0 THEN Raise("TypeError")
                ELSE Return(Msg("Good bye!", <<>>)))

\* remove
remove(args) ==
    input_error(
        IF Len(args) # 1 THEN Raise("TypeError")
        ELSE IF AddressBook_get(ab, Str(args[1])) # 0
        THEN LET d == AddressBook_remove_record(ab, recs, args[1])
             IN  IF d.exc # "" THEN Raise(d.exc)
                 ELSE [Return(d.ret) EXCEPT !.ab = d.ab, !.recs = d.recs]
        ELSE Return(Msg("No {} in contacts", <<args[1]>>)))

\* search
search(args) ==
    input_error(
        IF Len(args) = 1 /\ Len(args[1]) >= 3
        THEN LET results == AddressBook_search(ab, recs, args[1])
             IN  IF Len(results) > 0
                 THEN Return(Msg("{}", <<Join([i \in 1..Len(results) |->
                                                Record_str(recs[results[i]])], <<"\n">>)>>))
                 ELSE Return(Msg("No result found by your search", <<>>))
        ELSE Return(Msg("Invalid search, try 3 symbols or more after search command", <<>>)))

-----------------------------------------------------------------------------
(* The command table and the parser *)

commands ==
    (<<"h", "e", "l", "l", "o">> :> "hello") @@
    (<<"h", "i">> :> "hello") @@
    (<<"a", "d", "d">> :> "add") @@
    (<<"+">> :> "add") @@
    (<<"c", "h", "a", "n", "g", "e">> :> "change") @@
    (<<"f", "i", "n", "d">> :> "find") @@
    (<<"s", "h", "o", "w", "_", "a", "l", "l">> :> "show_all") @@
    (<<"s", "h", "o", "w">> :> "show_all") @@
    (<<"h", "e", "l", "p">> :> "help") @@
    (<<"b", "y", "e">> :> "close") @@
    (<<"c", "l", "o", "s", "e">> :> "close") @@
    (<<"e", "x", "i", "t">> :> "close") @@
    (<<"b", "i", "r", "t", "h", "d", "a", "y">> :> "set_birthday") @@
    (<<"d", "a", "y", "s", "_", "t", "o", "_", "b", "d">> :> "days_to_birthday") @@
    (<<"s", "e", "a", "r", "c", "h">> :> "search") @@
    (<<"d", "e", "l">> :> "remove")

\* parser, decorated with input_error: ret is the pair [command, data], or
\* the string input_error made of an exception
parser(text) ==
    input_error(
        LET words == split(lower(text))
        IN  IF Len(words) = 0 THEN [exc |-> "IndexError", ret |-> NoMsg]   \* words[0]
            ELSE IF words[1] \in DOMAIN commands
            THEN [exc |-> "", ret |-> [command |-> commands[words[1]],
                                       data |-> Tail(words)]]
            ELSE [exc |-> "", ret |-> [command |-> "no_command", data |-> <<>>]])

\* `command, data = parser(user_input)` unpacks a pair; the 13-character
\* string "Invalid input" raises ValueError instead
Unpacks(p) == "command" \in DOMAIN p.ret

-----------------------------------------------------------------------------
(* Inputs *)

ann == <<"a", "n", "n">>
bob == <<"b", "o", "b">>
P1 == <<"+", "3", "8", "0", "9", "9", "1", "2", "3", "4", "5", "6", "7">>
P2 == <<"+", "3", "8", "0", "5", "0", "1", "1", "1", "2", "2", "3", "3">>
Pbad == <<"+", "3", "8", "0", "9", "9">>
B1 == <<"2", "9", ".", "0", "2", ".", "2", "0", "2", "4">>
Bbad == <<"3", "1", ".", "0", "4", ".", "2", "0", "2", "3">>

\* the lines typed at the prompt
Lines == {
    <<>>,
    <<" ", " ">>,
    <<"h", "e", "l", "l", "o">>,
    <<"h", "i", " ", "a", "n", "n">>,
    <<"a", "d", "d">>,
    <<"a", "d", "d", " ", "a", "n", "n">>,
    <<"a", "d", "d", " ", "a", "n", "n", " ", "+", "3", "8", "0", "9", "9", "1", "2", "3", "4", "5", "6", "7">>,
    <<"A", "D", "D", " ", "A", "n", "n", " ", "+", "3", "8", "0", "9", "9", "1", "2", "3", "4", "5", "6", "7">>,
    <<"a", "d", "d", " ", "a", "n", "n", " ", "+", "3", "8", "0", "9", "9">>,
    <<"a", "d", "d", " ", "b", "o", "b", " ", "+", "3", "8", "0", "5", "0", "1", "1", "1", "2", "2", "3", "3">>,
    <<"+", " ", "b", "o", "b", " ", "+", "3", "8", "0", "9", "9", "1", "2", "3", "4", "5", "6", "7", " ", "2", "9", ".", "0", "2", ".", "2", "0", "2", "4">>,
    <<"a", "d", "d", " ", "a", "n", "n", " ", "+", "3", "8", "0", "9", "9", "1", "2", "3", "4", "5", "6", "7", " ", "2", "9", ".", "0", "2", ".", "2", "0", "2", "4", " ", "x">>,
    <<"c", "h", "a", "n", "g", "e", " ", "a", "n", "n", " ", "+", "3", "8", "0", "5", "0", "1", "1", "1", "2", "2", "3", "3">>,
    <<"c", "h", "a", "n", "g", "e", " ", "a", "n", "n", " ", "+", "3", "8", "0", "9", "9">>,
    <<"c", "h", "a", "n", "g", "e", " ", "a", "n", "n">>,
    <<"c", "h", "a", "n", "g", "e", " ", "b", "o", "b", " ", "+", "3", "8", "0", "9", "9", "1", "2", "3", "4", "5", "6", "7">>,
    <<"f", "i", "n", "d", " ", "a", "n", "n">>,
    <<"f", "i", "n", "d">>,
    <<"s", "h", "o", "w">>,
    <<"s", "h", "o", "w", "_", "a", "l", "l", " ", "1">>,
    <<"s", "h", "o", "w", " ", "x">>,
    <<"s", "h", "o", "w", " ", "0">>,
    <<"h", "e", "l", "p">>,
    <<"h", "e", "l", "p", " ", "x">>,
    <<"b", "y", "e">>,
    <<"c", "l", "o", "s", "e", " ", "n", "o", "w">>,
    <<"E", "X", "I", "T">>,
    <<"b", "i", "r", "t", "h", "d", "a", "y", " ", "a", "n", "n", " ", "2", "9", ".", "0", "2", ".", "2", "0", "2", "4">>,
    <<"b", "i", "r", "t", "h", "d", "a", "y", " ", "a", "n", "n", " ", "3", "1", ".", "0", "4", ".", "2", "0", "2", "3">>,
    <<"b", "i", "r", "t", "h", "d", "a", "y", " ", "b", "o", "b", " ", "6", ".", "1", "1", ".", "1", "9", "9", "0">>,
    <<"b", "i", "r", "t", "h", "d", "a", "y", " ", "a", "n", "n">>,
    <<"d", "a", "y", "s", "_", "t", "o", "_", "b", "d", " ", "a", "n", "n">>,
    <<"d", "a", "y", "s", "_", "t", "o", "_", "b", "d">>,
    <<"s", "e", "a", "r", "c", "h", " ", "a", "n", "n">>,
    <<"s", "e", "a", "r", "c", "h", " ", "0", "9", "9", "1">>,
    <<"s", "e", "a", "r", "c", "h", " ", "a", "n">>,
    <<"s", "e", "a", "r", "c", "h">>,
    <<"d", "e", "l", " ", "a", "n", "n">>,
    <<"d", "e", "l", " ", "b", "o", "b">>,
    <<"d", "e", "l">>,
    <<"f", "o", "o">> }

\* the dates datetime.now().date() takes
Todays == {[year |-> 2024, month |-> 2, day |-> 29],
           [year |-> 2026, month |-> 11, day |-> 6]}

\* parsed[line] of each line that can be typed
parsed == [line \in Lines |-> parser(line)]

\* what ab.bin and ab.csv hold when the process starts: nothing, or what an
\* earlier process saved on exit
SavedBook ==
    [data |-> <<[key |-> ann, rec |-> 1]>>,
     recs |-> <<[name |-> ann, phones |-> <<[id |-> 1, value |-> P1]>>,
                 birthday |-> NoneDate]>>]

\* no library operation applied yet
NoPhone == [id |-> 0, value |-> None]
NoOp == [name |-> "", rec |-> 0, phone |-> NoPhone, text |-> <<>>,
         exc |-> "", ret |-> NoMsg, ids |-> <<>>]

-----------------------------------------------------------------------------
(* main *)

\* ab.load("ab.bin")
main_load ==
    /\ pc = "Loading"
    /\ ab' = AddressBook_load(binFile).data
    /\ recs' = AddressBook_load(binFile).recs
    /\ pc' = "Running"
    /\ UNCHANGED <<user_input, out, binFile, csvFile, binWrites, csvWrites,
                   op, gen, chunks>>

\* parser returned a string: the unpacking raises, main prints and returns
main_unpack_error ==
    /\ pc = "Running"
    /\ \E line \in Lines :
        /\ ~Unpacks(parsed[line])
        /\ user_input' = line
    /\ out' = <<Msg("Error {e}", <<>>)>>
    /\ pc' = "Failed"
    /\ UNCHANGED <<ab, recs, binFile, csvFile, binWrites, csvWrites,
                   op, gen, chunks>>

\* main_close without the call of save_csv
main_close_without_csv ==
    /\ pc = "Running"
    /\ \E line \in Lines :
        /\ Unpacks(parsed[line])
        /\ parsed[line].ret.command = "close"
        /\ user_input' = line
    /\ binFile' = AddressBook_save(ab, recs)
    /\ binWrites' = binWrites + 1
    /\ out' = <<>>
    /\ pc' = "Exited"
    /\ UNCHANGED <<ab, recs, csvFile, csvWrites, op, gen, chunks>>

\* command == close: save, save_csv, break
main_close ==
    /\ pc = "Running"
    /\ \E line \in Lines :
        /\ Unpacks(parsed[line])
        /\ parsed[line].ret.command = "close"
        /\ user_input' = line
    /\ binFile' = AddressBook_save(ab, recs)
    /\ binWrites' = binWrites + 1
    /\ csvFile' = AddressBook_save_csv(ab, recs)
    /\ csvWrites' = csvWrites + 1
    /\ out' = <<>>
    /\ pc' = "Exited"
    /\ UNCHANGED <<ab, recs, op, gen, chunks>>

\* the line dispatches to the handler named command
Dispatches(line, command) ==
    /\ pc = "Running"
    /\ Unpacks(parsed[line])
    /\ parsed[line].ret.command = command
    /\ command # "close"

\* result = command(*data); print(result) -- or the exception reaches the
\* outer handler of main, which prints and returns
main_call(line, o) ==
    /\ user_input' = line
    /\ ab' = o.ab
    /\ recs' = Renamed(o.recs)
    /\ IF o.exc = ""
       THEN /\ out' = Append(o.printed, o.ret)
            /\ pc' = "Running"
       ELSE /\ out' = Append(o.printed, Msg("Error {e}", <<>>))
            /\ pc' = "Failed"
    /\ UNCHANGED <<binFile, csvFile, binWrites, csvWrites, op, gen, chunks>>

main_hello ==
    \E line \in Lines : /\ Dispatches(line, "hello")
                        /\ main_call(line, hello(parsed[line].ret.data))

main_add ==
    \E line \in Lines : /\ Dispatches(line, "add")
                        /\ main_call(line, add(parsed[line].ret.data))

main_change ==
    \E line \in Lines : /\ Dispatches(line, "change")
                        /\ main_call(line, change(parsed[line].ret.data))

main_find ==
    \E line \in Lines : /\ Dispatches(line, "find")
                        /\ main_call(line, find(parsed[line].ret.data))

main_show_all ==
    \E line \in Lines, quit \in 1..MaxChunks :
        /\ Dispatches(line, "show_all")
        /\ main_call(line, show_all(parsed[line].ret.data, quit))

main_help ==
    \E line \in Lines : /\ Dispatches(line, "help")
                        /\ main_call(line, help(parsed[line].ret.data))

main_set_birthday ==
    \E line \in Lines : /\ Dispatches(line, "set_birthday")
                        /\ main_call(line, set_birthday(parsed[line].ret.data))

main_days_to_birthday ==
    \E line \in Lines, today \in Todays :
        /\ Dispatches(line, "days_to_birthday")
        /\ main_call(line, days_to_birthday(parsed[line].ret.data, today))

main_search ==
    \E line \in Lines : /\ Dispatches(line, "search")
                        /\ main_call(line, search(parsed[line].ret.data))

main_remove ==
    \E line \in Lines : /\ Dispatches(line, "remove")
                        /\ main_call(line, remove(parsed[line].ret.data))

main_no_command ==
    \E line \in Lines : /\ Dispatches(line, "no_command")
                        /\ main_call(line, no_command(parsed[line].ret.data))

Init ==
    /\ pc = "Loading"
    /\ ab = <<>> /\ recs = <<>>
    /\ user_input = <<>> /\ out = <<>>
    /\ \/ binFile = <<>> /\ csvFile = <<>>
       \/ /\ binFile = AddressBook_save(SavedBook.data, SavedBook.recs)
          /\ csvFile = AddressBook_save_csv(SavedBook.data, SavedBook.recs)
    /\ binWrites = 0 /\ csvWrites = 0
    /\ op = NoOp /\ gen = NoGen /\ chunks = <<>>

Next ==
    \/ main_load
    \/ main_unpack_error
    \/ main_close
    \/ main_hello
    \/ main_add
    \/ main_change
    \/ main_find
    \/ main_show_all
    \/ main_help
    \/ main_set_birthday
    \/ main_days_to_birthday
    \/ main_search
    \/ main_remove
    \/ main_no_command

Spec == Init /\ [][Next]_vars

-----------------------------------------------------------------------------
(* Record and AddressBook driven directly, as a caller of the classes does. *)
(* Records are reached through the book; a Phone handed to add_phone is     *)
(* either newly constructed or an object the record already holds.          *)

Ann == <<"A", "n", "n">>
LibNames == {ann, bob}
LibPhones == {P1, P2}
LibBirthdays == {B1, Bbad}

LibUnchanged == UNCHANGED <<pc, user_input, out, binFile, csvFile, binWrites,
                            csvWrites, gen, chunks>>

\* ab.add_record(Record(Name(name), Phone(v))) or ab.add_record(Record(Name(name)))
\* or ab.add_record(r) of a record the book holds
AddRecord ==
    /\ pc = "Library"
    /\ \/ \E name \in LibNames, pv \in {<<>>} \cup {<<v>> : v \in LibPhones} :
            LET id == FreshRec(recs)
                ph == IF pv = <<>> THEN <<>>
                      ELSE <<[id |-> FreshPhone(recs), value |-> pv[1]]>>
                h == (id :> Record_init(name, ph)) @@ recs
                a2 == AddressBook_add_record(ab, h, id)
            IN  /\ ab' = a2
                /\ recs' = Renamed(Reclaim(a2, h))
                /\ Cardinality(PhoneIds(recs')) <= MaxPhones
                /\ op' = [NoOp EXCEPT !.name = "add_record", !.rec = id, !.text = name]
       \/ \E id \in DOMAIN recs :
            /\ ab' = AddressBook_add_record(ab, recs, id)
            /\ recs' = recs
            /\ op' = [NoOp EXCEPT !.name = "add_record", !.rec = id,
                                  !.text = Str(recs[id].name)]
    /\ LibUnchanged

\* ab.remove_record(name)
RemoveRecord ==
    /\ pc = "Library"
    /\ \E name \in LibNames :
        LET d == AddressBook_remove_record(ab, recs, name)
        IN  /\ ab' = d.ab
            /\ recs' = Renamed(d.recs)
            /\ op' = [NoOp EXCEPT !.name = "remove_record", !.text = name,
                                  !.exc = d.exc, !.ret = d.ret]
    /\ LibUnchanged

\* ab.change_phone_by_name(name, new_phone)
ChangePhoneByName ==
    /\ pc = "Library"
    /\ \E name \in LibNames, new_phone \in LibPhones \cup {Pbad} :
        LET c == AddressBook_change_phone_by_name(ab, recs, name, new_phone)
        IN  /\ recs' = Renamed(c.recs)
            /\ op' = [NoOp EXCEPT !.name = "change_phone_by_name", !.exc = c.exc]
    /\ ab' = ab
    /\ LibUnchanged

\* record.add_phone(phone)
AddPhone ==
    /\ pc = "Library"
    /\ \E id \in DOMAIN recs :
        /\ Cardinality(PhoneIds(recs)) < MaxPhones
        /\ \E phone \in {[id |-> FreshPhone(recs), value |-> v] : v \in LibPhones}
                        \cup Range(recs[id].phones) :
            LET r == Record_add_phone(recs[id], phone)
            IN  /\ recs' = Renamed([recs EXCEPT ![id] = r.rec])
                /\ op' = [NoOp EXCEPT !.name = "add_phone", !.rec = id,
                                      !.phone = phone, !.ret = r.ret]
    /\ ab' = ab
    /\ LibUnchanged

\* record.remove_phone(text)
RemovePhone ==
    /\ pc = "Library"
    /\ \E id \in DOMAIN recs, text \in LibPhones :
        /\ recs' = Renamed([recs EXCEPT ![id] = Record_remove_phone(recs[id], text)])
        /\ op' = [NoOp EXCEPT !.name = "remove_phone"]
    /\ ab' = ab
    /\ LibUnchanged

\* record.change_phone(old, Phone(new))
ChangePhone ==
    /\ pc = "Library"
    /\ \E id \in DOMAIN recs, old \in LibPhones, new \in LibPhones :
        LET phone == [id |-> FreshPhone(recs), value |-> new]
        IN  /\ recs' = Renamed([recs EXCEPT ![id] =
                                        Record_change_phone(recs[id], old, phone)])
            /\ op' = [NoOp EXCEPT !.name = "change_phone"]
    /\ ab' = ab
    /\ LibUnchanged

\* record.set_birthday(text)
SetBirthday ==
    /\ pc = "Library"
    /\ \E id \in DOMAIN recs, text \in LibBirthdays :
        LET b == Record_set_birthday(recs[id], text)
        IN  /\ recs' = [recs EXCEPT ![id] = b.rec]
            /\ op' = [NoOp EXCEPT !.name = "set_birthday", !.ret = b.ret]
    /\ ab' = ab
    /\ LibUnchanged

InitBook ==
    /\ pc = "Library"
    /\ ab = <<>> /\ recs = <<>>
    /\ user_input = <<>> /\ out = <<>>
    /\ binFile = <<>> /\ csvFile = <<>>
    /\ binWrites = 0 /\ csvWrites = 0
    /\ op = NoOp /\ gen = NoGen /\ chunks = <<>>

NextBook ==
    \/ AddRecord
    \/ RemoveRecord
    \/ ChangePhoneByName
    \/ AddPhone
    \/ RemovePhone
    \/ ChangePhone
    \/ SetBirthday

SpecBook == InitBook /\ [][NextBook]_vars

-----------------------------------------------------------------------------
(* AddressBook.iterator driven by a consumer calling next() *)

\* a book of k records named "1" .. "k", in that insertion order
IterBook(k) ==
    [data |-> [i \in 1..k |-> [key |-> IntText(i), rec |-> i]],
     recs |-> [i \in 1..k |-> [name |-> IntText(i), phones |-> <<>>,
                               birthday |-> NoneDate]]]

PageSizes == {<<>>} \cup {<<n>> : n \in 0..MaxPage}

\* g = ab.iterator(n)
Iterator ==
    /\ pc = "Library"
    /\ \E n \in PageSizes : gen' = AddressBook_iterator(n)
    /\ chunks' = <<>>
    /\ op' = [NoOp EXCEPT !.name = "iterator"]
    /\ UNCHANGED <<pc, ab, recs, user_input, out, binFile, csvFile, binWrites,
                   csvWrites>>

\* next(g); a consumer gives up after MaxBook + 1 chunks
NextChunk ==
    /\ pc = "Library"
    /\ gen.state # "none"
    /\ Len(chunks) <= MaxBook
    /\ LET s == iterator_next(gen, ab)
       IN  /\ gen' = s.gen
           /\ chunks' = chunks \o s.yield
           /\ op' = [NoOp EXCEPT !.name = "next", !.exc = s.exc]
    /\ UNCHANGED <<pc, ab, recs, user_input, out, binFile, csvFile, binWrites,
                   csvWrites>>

InitIter ==
    /\ pc = "Library"
    /\ \E k \in 0..MaxBook : ab = IterBook(k).data /\ recs = IterBook(k).recs
    /\ user_input = <<>> /\ out = <<>>
    /\ binFile = <<>> /\ csvFile = <<>>
    /\ binWrites = 0 /\ csvWrites = 0
    /\ op = NoOp /\ gen = NoGen /\ chunks = <<>>

NextIter == Iterator \/ NextChunk

SpecIter == InitIter /\ [][NextIter]_vars

-----------------------------------------------------------------------------
(* AddressBook.search applied to books of up to two records *)

SearchNames == {Ann, bob}
SearchPhones == {<<>>, <<P1>>, <<P1, P2>>, <<None>>}
Queries == {<<"a", "n", "n">>, <<"A", "N">>, <<"N">>, <<"3", "8", "0">>, <<"0", "9", "9">>,
            <<"n", "o", "n">>, <<"z", "z", "z">>, <<"b">>}

\* a record with the given phone values, its Phone objects numbered from base
SearchRecord(name, ps, base) ==
    [name |-> name,
     phones |-> [i \in 1..Len(ps) |-> [id |-> base + i, value |-> ps[i]]],
     birthday |-> NoneDate]

SearchBooks ==
    {[data |-> <<>>, recs |-> <<>>]}
    \cup {[data |-> <<[key |-> n, rec |-> 1]>>, recs |-> <<SearchRecord(n, ps, 0)>>]
          : n \in SearchNames, ps \in SearchPhones}
    \cup {[data |-> <<[key |-> n1, rec |-> 1], [key |-> n2, rec |-> 2]>>,
           recs |-> <<SearchRecord(n1, ps1, 0), SearchRecord(n2, ps2, 2)>>]
          : <<n1, n2>> \in {<<Ann, bob>>, <<bob, Ann>>},
            ps1 \in SearchPhones, ps2 \in SearchPhones}

\* results = ab.search(query)
Search ==
    /\ pc = "Library"
    /\ op.name = ""
    /\ op' = [op EXCEPT !.name = "search",
                        !.ids = AddressBook_search(ab, recs, op.text)]
    /\ UNCHANGED <<pc, ab, recs, user_input, out, binFile, csvFile, binWrites,
                   csvWrites, gen, chunks>>

InitSearch ==
    /\ pc = "Library"
    /\ \E b \in SearchBooks : ab = b.data /\ recs = b.recs
    /\ \E q \in Queries : op = [NoOp EXCEPT !.text = q]
    /\ user_input = <<>> /\ out = <<>>
    /\ binFile = <<>> /\ csvFile = <<>>
    /\ binWrites = 0 /\ csvWrites = 0
    /\ gen = NoGen /\ chunks = <<>>

NextSearch == Search

SpecSearch == InitSearch /\ [][NextSearch]_vars

-----------------------------------------------------------------------------
(* Properties of main and the handlers, checked under Spec *)

Last(q) == q[Len(q)]

Count(q, v) == Cardinality({i \in 1..Len(q) : q[i] = v})

\* the lines whose first token, lower-cased, is bye, close or exit
ExitLines ==
    {line \in Lines :
        /\ Len(split(lower(line))) > 0
        /\ split(lower(line))[1] \in {<<"b", "y", "e">>, <<"c", "l", "o", "s", "e">>,
                                      <<"e", "x", "i", "t">>}}

\* C1: only an exit line makes main leave its loop; after any other line
\* the loop is still running and has printed a string.
C1_OnlyExitLeavesLoop ==
    /\ pc \in {"Exited", "Failed"} => (pc = "Exited" /\ user_input \in ExitLines)
    /\ (pc = "Running" /\ user_input \in Lines \ {<<>>}) => Len(out) > 0

\* the step of main that reads an exit line, and every other step
C2_Step ==
    /\ pc = "Running" /\ user_input' \in ExitLines =>
          /\ pc' = "Exited"
          /\ binWrites' = binWrites + 1 /\ csvWrites' = csvWrites + 1
          /\ binFile' = AddressBook_save(ab, recs)
          /\ csvFile' = AddressBook_save_csv(ab, recs)
          /\ ab' = ab /\ recs' = recs
          /\ out' = <<>>
    /\ ~(pc = "Running" /\ user_input' \in ExitLines) =>
          /\ pc' # "Exited"
          /\ UNCHANGED <<binFile, csvFile, binWrites, csvWrites>>
    /\ pc # "Exited"

C2_Once ==
    IF pc = "Exited" THEN binWrites = 1 /\ csvWrites = 1
    ELSE binWrites = 0 /\ csvWrites = 0

\* C2: a line whose first token is bye, close or exit makes main write ab.bin
\* once and ab.csv once from the current book, call no handler and stop
\* without reading another line; no other line writes either file.
C2_ExitPersistsOnce == []C2_Once /\ [][C2_Step]_vars

C2_Witness ==
    /\ pc = "Exited" /\ Len(ab) = 2
    /\ Len(split(user_input)) = 2
    /\ binWrites = 1 /\ csvWrites = 1
    /\ binFile = AddressBook_save(ab, recs)

\* C4: `add` for a name the book holds, with a valid phone: the phone is
\* appended to the record unless the record holds it already, the book keeps
\* one entry for the name, and main prints the returned status string.
C4_AddExistingName ==
    [][\A line \in Lines :
        LET p == parsed[line].ret
        IN  (/\ pc = "Running" /\ user_input' = line
             /\ Unpacks(parsed[line]) /\ p.command = "add"
             /\ Len(p.data) = 2 /\ p.data[1] \in Keys(ab)
             /\ Phone_is_valid_phone(p.data[2]))
            => LET id == AddressBook_get(ab, p.data[1])
                   old == PhoneStrs(recs[id].phones)
               IN  /\ pc' = "Running"
                   /\ [i \in 1..Len(ab') |-> ab'[i].key] = [i \in 1..Len(ab) |-> ab[i].key]
                   /\ id \in DOMAIN recs'
                   /\ IF p.data[2] \in Range(old)
                      THEN /\ PhoneStrs(recs'[id].phones) = old
                           /\ Last(out').msg = "{} already added to {}"
                      ELSE /\ PhoneStrs(recs'[id].phones) = Append(old, p.data[2])
                           /\ Last(out').msg = "Phone {} added to contact {}"]_vars

\* the positional arguments each handler of the table requires
Required ==
    [hello |-> 0, add |-> 1, change |-> 2, find |-> 1, show_all |-> 0, help |-> 0,
     set_birthday |-> 2, days_to_birthday |-> 1, search |-> 0, remove |-> 1]

\* C7: no failure of a handler of the table leaves the handler; a handler
\* called with fewer arguments than it requires gives "Invalid input", a
\* lookup miss "contact not found", a validation failure "invalid format,
\* type help".
C7_HandlersWrapped ==
    (pc \in {"Running", "Failed"} /\ Unpacks(parsed[user_input])) =>
        LET p == parsed[user_input].ret
        IN  /\ pc = "Running"
            /\ (p.command \in DOMAIN Required /\ Len(p.data) < Required[p.command])
                  => out = <<Msg("Invalid input", <<>>)>>
            /\ (p.command = "find" /\ Len(p.data) = 1 /\ p.data[1] \notin Keys(ab))
                  => out = <<Msg("contact not found", <<>>)>>
            /\ (p.command = "change" /\ Len(p.data) = 2 /\ p.data[1] \in Keys(ab)
                  /\ ~Phone_is_valid_phone(p.data[2]))
                  => out = <<Msg("invalid format, type help", <<>>)>>

\* some field of some row of the CSV file contains the text
CsvHas(t) ==
    \E i \in 1..Len(csvFile) : \E j \in 1..Len(csvFile[i]) :
        Contains(csvFile[i][j], t)

\* C9: the CSV file written on exit holds every contact's name, each of its
\* phone numbers, and its birthday when one is set.
C9_CsvHoldsContacts ==
    pc = "Exited" =>
        \A i \in 1..Len(ab) :
            LET r == recs[ab[i].rec]
            IN  /\ CsvHas(Str(r.name))
                /\ \A k \in 1..Len(r.phones) :
                      r.phones[k].value # None => CsvHas(r.phones[k].value)
                /\ r.birthday # NoneDate => CsvHas(IntText(r.birthday.year))

-----------------------------------------------------------------------------
(* Properties of Record and AddressBook, checked under SpecBook *)

\* C3: add_phone with a Phone whose string value the record holds once
\* already leaves phones unchanged, with one entry of that value.
C3_AddPhoneSameValue ==
    [][op'.name = "add_phone" =>
        LET old == PhoneStrs(recs[op'.rec].phones)
            new == PhoneStrs(recs'[op'.rec].phones)
            v == Str(op'.phone.value)
        IN  Count(old, v) = 1 => (new = old /\ Count(new, v) = 1)]_vars

\* every key maps to a Record of that name; no Record is under two keys
C10_Inv ==
    \A i \in 1..Len(ab) :
        /\ ab[i].rec \in DOMAIN recs
        /\ Str(recs[ab[i].rec].name) = ab[i].key
        /\ \A j \in 1..Len(ab) :
              i # j => (ab[i].rec # ab[j].rec /\ ab[i].key # ab[j].key)

\* a Record in the book before and after a step is under the same key;
\* add_record sets the entry of the record's name and no other, remove_record
\* deletes the named entry and no other, the other operations keep the mapping
C10_Step ==
    /\ \A i \in 1..Len(ab) : \A j \in 1..Len(ab') :
          ab'[j].rec = ab[i].rec => ab'[j].key = ab[i].key
    /\ op'.name = "add_record" =>
          /\ Keys(ab') = Keys(ab) \cup {op'.text}
          /\ AddressBook_get(ab', op'.text) = op'.rec
          /\ \A i \in 1..Len(ab) : ab[i].key # op'.text => ab'[i] = ab[i]
    /\ op'.name = "remove_record" =>
          IF op'.text \in Keys(ab)
          THEN ab' = SelectSeq(ab, LAMBDA e : e.key # op'.text) /\ op'.exc = ""
          ELSE ab' = ab /\ op'.exc = "KeyError"
    /\ op'.name \notin {"add_record", "remove_record"} => ab' = ab

\* C10: in every state reached by add_record, remove_record,
\* change_phone_by_name, add_phone, remove_phone, change_phone and
\* set_birthday from the empty book, every key maps to a Record whose name is
\* the key, no Record is under two keys, and no operation moves an entry to
\* another key.
C10_KeyedByOwnName == []C10_Inv /\ [][C10_Step]_vars

C10_Witness ==
    /\ Len(ab) = 2
    /\ op.name = "add_record"
    /\ \E id \in DOMAIN recs :
          Len(recs[id].phones) = 2 /\ recs[id].birthday # NoneDate

-----------------------------------------------------------------------------
(* Properties of AddressBook.iterator, checked under SpecIter *)

RECURSIVE Concat(_)
Concat(cs) == IF Len(cs) = 0 THEN <<>> ELSE cs[1] \o Concat(Tail(cs))

\* C5: with a page size n >= 1 the chunks are the book's records in
\* insertion order, every chunk has 1..n records and every chunk but the last
\* exactly n, and the sequence then ends normally.
C5_ChunksPartitionBook ==
    (gen.state # "none" /\ gen.n # <<>> /\ gen.n[1] >= 1) =>
        LET n == gen.n[1]
            k == Len(chunks)
            all == Concat(chunks)
        IN  /\ \A i \in 1..k : Len(chunks[i]) \in 1..n
            /\ \A i \in 1..(k - 1) : Len(chunks[i]) = n
            /\ all = SubSeq(AddressBook_values(ab), 1, Len(all))
            /\ (k > 0 /\ Len(chunks[k]) < n) => all = AddressBook_values(ab)
            /\ gen.state = "finished" =>
                  (all = AddressBook_values(ab) /\ op.exc = "StopIteration")
            /\ op.exc \in {"", "StopIteration"}

C5_Witness ==
    /\ gen.state = "finished" /\ gen.n = <<2>> /\ Len(ab) = 5
    /\ [i \in 1..Len(chunks) |-> Len(chunks[i])] = <<2, 2, 1>>
    /\ op.exc = "StopIteration"

\* C6: with the page size unset the generator yields one chunk holding all
\* records, and further requests find it exhausted: no second chunk, no
\* failure.
C6_UnsetPageSize ==
    (gen.state # "none" /\ gen.n = <<>>) =>
        /\ Len(chunks) <= 1
        /\ Len(chunks) = 1 => chunks[1] = AddressBook_values(ab)
        /\ op.exc \in {"", "StopIteration"}

-----------------------------------------------------------------------------
(* Properties of AddressBook.search, checked under SpecSearch *)

NameMatches(r, query) == Contains(lower(Str(r.name)), lower(query))

PhoneMatches(r, query) ==
    \E i \in 1..Len(r.phones) : Contains(lower(Str(r.phones[i].value)), lower(query))

\* C8: search returns a record exactly when the lower-cased query is a
\* substring of its lower-cased name or of one of its phone values, in
\* mapping order, and a record whose name matches is returned once.
C8_SearchMatches ==
    op.name = "search" =>
        LET res == op.ids
            pos(id) == CHOOSE i \in 1..Len(ab) : ab[i].rec = id
        IN  /\ Range(res) \subseteq Range(AddressBook_values(ab))
            /\ \A i \in 1..Len(ab) :
                  LET r == recs[ab[i].rec]
                  IN  /\ ab[i].rec \in Range(res)
                          <=> (NameMatches(r, op.text) \/ PhoneMatches(r, op.text))
                      /\ NameMatches(r, op.text) => Count(res, ab[i].rec) = 1
            /\ \A i \in 1..Len(res) : \A j \in 1..Len(res) :
                  i < j => pos(res[i]) <= pos(res[j])

C8_Witness ==
    /\ op.name = "search" /\ Len(ab) = 2
    /\ \E i \in 1..Len(ab) :
          /\ NameMatches(recs[ab[i].rec], op.text)
          /\ PhoneMatches(recs[ab[i].rec], op.text)
          /\ Count(op.ids, ab[i].rec) = 1
    /\ \E i \in 1..Len(ab) :
          /\ ~NameMatches(recs[ab[i].rec], op.text)
          /\ PhoneMatches(recs[ab[i].rec], op.text)

====
